---- MODULE Spec2Model ----
(***************************************************************************)
(* Billing-integrated task dispatch pipeline of Axiom-AI-API:              *)
(* pricing -> conditional debit -> task insert -> publish -> worker claim  *)
(* -> processor -> complete / fail -> refund, with the admin task and key  *)
(* endpoints that write the same stores.                                   *)
(*                                                                         *)
(* generate (main.py) calls the service and publishes the task's fields as  *)
(* the message body; the service (generation_service.py) prices, debits    *)
(* and inserts the pending document.                                       *)
(*                                                                         *)
(* Money is held in millionths (the DECIMAL(15,6) scale of the balance     *)
(* column).  python None in a text field is Null, in the error field the   *)
(* empty sequence; an absent integer request field is 0.                   *)
(***************************************************************************)
EXTENDS Integers, FiniteSets, Sequences, TLC

\* ------------------------------------------------------------------ bounds
MaxTasks == 2              \* submissions (each draws a fresh uuid4 task id)
MaxFaults == 1             \* crashes, connection losses and store errors in a run
MaxAdminOps == 1           \* admin ledger edits (top-up / overwrite) in a run
MaxManualRefunds == 1      \* admin manual refunds in a run
MAX_CONCURRENT_TASKS == 1  \* settings.WORKER_MAX_CONCURRENT_TASKS
MaxInFlight == 2           \* prefetch count where one worker holds several deliveries
MaxNow == 45               \* seconds of wall-clock time in a run

\* --------------------------------------------------------------- constants
Unit == 1000000            \* one currency unit at scale 6

Null == "null"
Workers == {"w1", "w2"}
KeyIds == {1}
TaskIds == 1 .. MaxTasks
Users == {77}              \* telegram_id of the submitting account
TheUser == CHOOSE u \in Users : TRUE
\* User.coefficient, a float, held as a fraction; the column default is 1.0.
UserCoefficient == [num |-> 1, den |-> 1]
InitBalance == 30 * Unit

MODELS_WITH_DURATION_COST == {"video-model"}
MODEL_PROCESSORS == {"image-model", "video-model", "random-model-one", "random-model-two"}

\* Request parameter objects the schema admits (params = model_params.dict());
\* a field the parameter class does not have is 0.
ModelParams ==
    { [model_name |-> "image-model", num_images |-> 2, duration |-> 0] }
    \cup { [model_name |-> "video-model", num_images |-> 0, duration |-> 5] }
    \cup { [model_name |-> "random-model", num_images |-> 0, duration |-> 0] }
ModelNames == {"image-model", "video-model", "random-model"}

\* Price rows (main_models.Price); NoPrice: the model has no row.
PriceRow(c, p, a) == [present |-> TRUE, cost |-> c, prime_cost |-> p, is_active |-> a]
NoPrice == [present |-> FALSE, cost |-> 0, prime_cost |-> 0, is_active |-> FALSE]
\* Override rows (main_models.UserPrice); NoUserPrice: the account has none.
UserPriceRow(c) == [present |-> TRUE, custom_cost |-> c]
NoUserPrice == [present |-> FALSE, custom_cost |-> 0]

CatalogConfigs ==
    { [m \in ModelNames |->
          CASE m = "image-model" -> PriceRow(10 * Unit, 2 * Unit, TRUE)
            [] m = "video-model" -> PriceRow(4 * Unit, 1 * Unit, FALSE)
            [] OTHER -> NoPrice],
      [m \in ModelNames |->
          CASE m = "image-model" -> PriceRow(10 * Unit, 2 * Unit, TRUE)
            [] m = "video-model" -> PriceRow(4 * Unit, 1 * Unit, FALSE)
            [] OTHER -> PriceRow(10 * Unit, 0, TRUE)] }

\* Documents of the worker_status collection and entries of the status
\* response; NoWorkerDoc / NoWorkerData: none for that worker id.
NoWorkerDoc == [present |-> FALSE, last_heartbeat |-> 0]
NoWorkerData == [present |-> FALSE, is_alive |-> FALSE, age |-> 0]

\* Task documents of the tasks collection; NoDoc: no document with that _id.
ErrNone == << >>
NoParams == [model_name |-> Null, num_images |-> 0, duration |-> 0]
NoDoc == [status |-> "none", user_telegram_id |-> 0, api_key_id |-> 0,
          model |-> Null, params |-> NoParams, cost |-> 0, prime_cost |-> 0,
          created_at |-> 0, result |-> Null, error |-> ErrNone,
          processed_by |-> Null]

\* ------------------------------------------------------------------- state
VARIABLES
    balance,      \* api_keys.balance, by key id
    prices,       \* prices table, by model name
    tasks,        \* tasks collection, by _id
    queue,        \* general_tasks_queue: messages ready for delivery
    dlq,          \* general_tasks_queue.dlq: dead-lettered messages
    handlers,     \* on_message coroutines in flight in the worker processes
    sub,          \* /generate requests, by request
    clock,        \* datetime.now() at document preparation
    faults,       \* crashes, connection losses and store errors so far
    adminOps,     \* admin ledger edits so far
    ledger,       \* history: per key, the debits and credits applied
    refunds,      \* history: per task, the credits issued on its account
    user_prices,  \* user_prices table: the submitting account's rows, by model
    users,        \* users table, by telegram_id
    down,         \* worker processes that have died and not yet started again
    worker_status, \* worker_status collection, by worker id
    now_utc,      \* datetime.now(timezone.utc), in seconds
    report        \* the last response of GET /workers/status, by worker id

vars == <<balance, prices, tasks, queue, dlq, handlers, sub, clock, faults,
          adminOps, ledger, refunds, user_prices, users, worker_status, now_utc, report, down>>

\* ----------------------------------------------------------------- pricing
\* round(x, 6) of the quotient n / d, in millionths: nearest, ties to even.
Round6(n, d) ==
    LET q == n \div d
        r == n % d
    IN  IF 2 * r > d \/ (2 * r = d /\ q % 2 = 1) THEN q + 1 ELSE q

\* _validate_and_get_price with one error for both refusals.
_validate_one_error(price_obj) ==
    IF ~price_obj.present \/ ~price_obj.is_active THEN "PriceNotConfigured"
    ELSE "ok"

\* GenerationService._validate_and_get_price
_validate_and_get_price(price_obj) ==
    IF ~price_obj.present THEN "PriceNotConfigured"
    ELSE IF ~price_obj.is_active THEN "ModelDisabled"
    ELSE "ok"

\* The multiplier taken from the quantity whatever the model.
multiplier_by_quantity(model_params) ==
    IF model_params.num_images > 0 THEN model_params.num_images ELSE 1

\* The multiplier GenerationService._calculate_costs passes down and
\* get_final_cost applies.
Multiplier(model_params) ==
    IF model_params.model_name \in MODELS_WITH_DURATION_COST
    THEN IF model_params.duration > 0 THEN model_params.duration ELSE 1
    ELSE IF model_params.num_images > 0 THEN model_params.num_images ELSE 1

\* get_final_cost without the account coefficient.
get_final_cost_flat(coefficient, model_params, price_obj, user_price) ==
    LET multiplier == Multiplier(model_params) IN
    IF user_price.present
    THEN [err |-> Null,
          final_cost |-> Round6(user_price.custom_cost * multiplier, 1),
          prime_cost |-> Round6((IF price_obj.present THEN price_obj.prime_cost ELSE 0) * multiplier, 1)]
    ELSE IF ~price_obj.present
    THEN [err |-> "PriceNotConfigured", final_cost |-> 0, prime_cost |-> 0]
    ELSE [err |-> Null,
          final_cost |-> Round6(price_obj.cost * multiplier, 1),
          prime_cost |-> Round6(price_obj.prime_cost * multiplier, 1)]

\* get_final_cost with the account coefficient applied to an override too.
get_final_cost_scaled(coefficient, model_params, price_obj, user_price) ==
    LET multiplier == Multiplier(model_params) IN
    IF user_price.present
    THEN [err |-> Null,
          final_cost |-> Round6(user_price.custom_cost * multiplier * coefficient.num, coefficient.den),
          prime_cost |-> Round6((IF price_obj.present THEN price_obj.prime_cost ELSE 0) * multiplier, 1)]
    ELSE IF ~price_obj.present
    THEN [err |-> "PriceNotConfigured", final_cost |-> 0, prime_cost |-> 0]
    ELSE [err |-> Null,
          final_cost |-> Round6(price_obj.cost * multiplier * coefficient.num, coefficient.den),
          prime_cost |-> Round6(price_obj.prime_cost * multiplier, 1)]

\* get_final_cost: user_price is the account's override row for the model,
\* price_obj the catalog row.
get_final_cost(coefficient, model_params, price_obj, user_price) ==
    LET multiplier == Multiplier(model_params) IN
    IF user_price.present
    THEN [err |-> Null,
          final_cost |-> Round6(user_price.custom_cost * multiplier, 1),
          prime_cost |-> Round6((IF price_obj.present THEN price_obj.prime_cost ELSE 0) * multiplier, 1)]
    ELSE IF ~price_obj.present
    THEN [err |-> "PriceNotConfigured", final_cost |-> 0, prime_cost |-> 0]
    ELSE [err |-> Null,
          final_cost |-> Round6(price_obj.cost * multiplier * coefficient.num, coefficient.den),
          prime_cost |-> Round6(price_obj.prime_cost * multiplier, 1)]

\* ------------------------------------------------------------------ ledger
\* ApiKeyRepository.deduct_from_balance: one UPDATE ... WHERE balance >= amount.
deduct_no_guard(bal, amount) ==
    [ok |-> TRUE, bal |-> bal - amount]

deduct_then_check(bal, amount) ==
    [ok |-> bal - amount >= 0, bal |-> bal - amount]

deduct_strict(bal, amount) ==
    IF bal > amount THEN [ok |-> TRUE, bal |-> bal - amount]
    ELSE [ok |-> FALSE, bal |-> bal]

deduct_from_balance(bal, amount) ==
    IF bal >= amount THEN [ok |-> TRUE, bal |-> bal - amount]
    ELSE [ok |-> FALSE, bal |-> bal]

\* refund_balance through an integer amount: the fraction of a unit is lost.
refund_truncated(bal, amount) == bal + (amount \div Unit) * Unit

\* ApiKeyRepository.refund_balance: one UPDATE SET balance = balance + amount.
refund_overwrite(bal, amount) == amount

refund_balance(bal, amount) == bal + amount

\* ApiKeyRepository.add_to_balance: one UPDATE SET balance = balance + amount.
add_to_balance(bal, amount) == bal + amount

\* ApiKeyRepository.update_balance_by_id: one UPDATE SET balance = new_balance.
update_balance_by_id(bal, new_balance) == new_balance

\* -------------------------------------------------------------- task store
\* GenerationService._prepare_task_document
_prepare_task_document(task_id, model_params, final_cost, prime_cost, key_id, now) ==
    [status |-> "pending", user_telegram_id |-> TheUser, created_at |-> now,
     api_key_id |-> key_id, model |-> model_params.model_name,
     params |-> model_params, cost |-> final_cost, prime_cost |-> prime_cost,
     result |-> Null, error |-> ErrNone, processed_by |-> Null]

\* The message body published for a task document (the queue wire contract).
TaskMessageBody(task_id, doc) ==
    [_id |-> task_id, user_telegram_id |-> doc.user_telegram_id,
     api_key_id |-> doc.api_key_id, model |-> doc.model, params |-> doc.params,
     cost |-> doc.cost, prime_cost |-> doc.prime_cost, created_at |-> doc.created_at]

\* process_task, the claim: find_one_and_update(..., upsert=True) with the
\* immutable fields under $setOnInsert and the lifecycle fields under $set.
claim_set_all(doc, task_data, worker) ==
    [status |-> "processing", user_telegram_id |-> task_data.user_telegram_id,
     api_key_id |-> task_data.api_key_id, model |-> task_data.model,
     params |-> task_data.params, cost |-> task_data.cost,
     prime_cost |-> task_data.prime_cost, created_at |-> task_data.created_at,
     result |-> Null, error |-> ErrNone, processed_by |-> worker]

claim_update(doc, task_data, worker) ==
    IF doc.status = "none"
    THEN [status |-> "processing", user_telegram_id |-> task_data.user_telegram_id,
          api_key_id |-> task_data.api_key_id, model |-> task_data.model,
          params |-> task_data.params, cost |-> task_data.cost,
          prime_cost |-> task_data.prime_cost, created_at |-> task_data.created_at,
          result |-> Null, error |-> ErrNone, processed_by |-> worker]
    ELSE [doc EXCEPT !.status = "processing", !.processed_by = worker,
                     !.result = Null, !.error = ErrNone]

\* process_task, success: update_one({"_id"}, {"$set": {status, result}}).
complete_update(doc, result_data) ==
    IF doc.status = "none" THEN doc
    ELSE [doc EXCEPT !.status = "completed", !.result = result_data]

\* process_task, except branch: update_one({"_id"}, {"$set": {status, error}}).
fail_no_error(doc, e) ==
    IF doc.status = "none" THEN doc
    ELSE [doc EXCEPT !.status = "failed"]

fail_update(doc, e) ==
    IF doc.status = "none" THEN doc
    ELSE [doc EXCEPT !.status = "failed", !.error = <<e>>]

\* retry_failed_task: find_one_and_update({"_id", "status": "failed"}, ...).
\* retry_delete removes the record; retry_any drops the status from the filter.
retry_delete(doc) ==
    IF doc.status = "failed" THEN NoDoc ELSE doc

retry_any(doc) ==
    IF doc.status = "none" THEN doc
    ELSE [doc EXCEPT !.status = "pending", !.error = ErrNone]

retry_update(doc) ==
    IF doc.status = "failed"
    THEN [doc EXCEPT !.status = "pending", !.error = ErrNone]
    ELSE doc

\* refund_failed_task: the error text written after the manual credit.
manual_refund_update(doc) ==
    [doc EXCEPT !.error = <<"Manual refund processed. Original error: ">> \o doc.error]

\* ------------------------------------------------------------------- init
\* The account of the pipeline runs has no price override.
UserPrices == [m \in ModelNames |-> NoUserPrice]

TopUpAmounts == {5 * Unit}         \* KeyTopUpRequest.amount values drawn
SetBalanceValues == {10 * Unit}    \* KeyBalanceUpdate.balance values drawn
\* Both request fields are plain floats: values of either sign are accepted.
AnyTopUpAmounts == {5 * Unit, -40 * Unit}
AnySetBalanceValues == {10 * Unit, -1 * Unit}

NewSub == [pc |-> "new", params |-> NoParams, final_cost |-> 0, prime_cost |-> 0,
           key |-> 0, debited |-> 0, created_at |-> 0, reject |-> Null]

Init ==
    /\ balance = [k \in KeyIds |-> InitBalance]
    /\ prices \in CatalogConfigs
    /\ tasks = [t \in TaskIds |-> NoDoc]
    /\ queue = {}
    /\ dlq = {}
    /\ handlers = {}
    /\ sub = [s \in TaskIds |-> NewSub]
    /\ clock = 0
    /\ faults = 0
    /\ adminOps = 0
    /\ ledger = [k \in KeyIds |-> [debits |-> 0, credits |-> 0, overwritten |-> FALSE]]
    /\ refunds = [t \in TaskIds |-> [auto |-> 0, manual |-> 0, nmanual |-> 0]]
    /\ user_prices = UserPrices
    /\ users = [u \in Users |-> [coefficient |-> UserCoefficient]]
    /\ down = {}
    /\ worker_status = [w \in Workers |-> NoWorkerDoc]
    /\ now_utc = 0
    /\ report = [w \in Workers |-> NoWorkerData]

\* Pricing runs: the tables a submission is priced from are drawn from
\* these.  An override row references its catalog row (the foreign key of
\* user_prices.model_name), which an admin can deactivate but not delete.
Coefficients == {[num |-> 1, den |-> 1], [num |-> 3, den |-> 2], [num |-> 1, den |-> 3]}
PricingCatalogs ==
    CatalogConfigs \cup
    { [m \in ModelNames |->
          CASE m = "image-model" -> PriceRow(10 * Unit, 2 * Unit, TRUE)
            [] m = "video-model" -> PriceRow(4 * Unit, 1 * Unit, TRUE)
            [] OTHER -> NoPrice],
      [m \in ModelNames |->
          CASE m = "image-model" -> PriceRow(0, 0, TRUE)
            [] m = "video-model" -> PriceRow(4 * Unit, 1 * Unit, FALSE)
            [] OTHER -> NoPrice] }
OverrideConfigs ==
    { UserPrices,
      [UserPrices EXCEPT !["image-model"] = UserPriceRow(5 * Unit)],
      [UserPrices EXCEPT !["video-model"] = UserPriceRow(3 * Unit)] }
PricingParams ==
    { [model_name |-> "image-model", num_images |-> n, duration |-> 0] : n \in 1 .. 3 }
    \cup { [model_name |-> "video-model", num_images |-> 0, duration |-> d] : d \in {5, 10} }
    \cup { [model_name |-> "random-model", num_images |-> 0, duration |-> 0] }
ScenarioBalance == 100 * Unit

\* Parameter objects as _calculate_costs takes them: either field may be
\* there or not (0), and a field that is there may hold any integer.
QuoteParams ==
    { [model_name |-> m, num_images |-> n, duration |-> d] :
          m \in {"image-model", "video-model"}, n \in {-1, 0, 2, 3}, d \in {-5, 0, 5, 10} }
    \cup { [model_name |-> "random-model", num_images |-> 0, duration |-> 0] }

InitPricing ==
    /\ balance = [k \in KeyIds |-> ScenarioBalance]
    /\ prices \in PricingCatalogs
    /\ user_prices \in OverrideConfigs
    /\ \A m \in ModelNames : user_prices[m].present => prices[m].present
    /\ users \in [Users -> [coefficient : Coefficients]]
    /\ tasks = [t \in TaskIds |-> NoDoc]
    /\ queue = {}
    /\ dlq = {}
    /\ handlers = {}
    /\ sub = [s \in TaskIds |-> NewSub]
    /\ clock = 0
    /\ faults = 0
    /\ adminOps = 0
    /\ ledger = [k \in KeyIds |-> [debits |-> 0, credits |-> 0, overwritten |-> FALSE]]
    /\ refunds = [t \in TaskIds |-> [auto |-> 0, manual |-> 0, nmanual |-> 0]]
    /\ down = {}
    /\ worker_status = [w \in Workers |-> NoWorkerDoc]
    /\ now_utc = 0
    /\ report = [w \in Workers |-> NoWorkerData]

\* ------------------------------------------------------------- submission
\* generate -> GenerationService.create_generation_task, first two awaits:
\* _validate_and_get_price and _calculate_costs (both only read the catalog).
\* Request s is the one that will draw task id s; requests start in order.
SubmitPrice(s, key_id, model_params) ==
    /\ sub[s].pc = "new"
    /\ \A r \in TaskIds : r < s => sub[r].pc # "new"
    /\ LET v == _validate_and_get_price(prices[model_params.model_name])
           c == get_final_cost(users[TheUser].coefficient, model_params,
                               prices[model_params.model_name],
                               user_prices[model_params.model_name])
       IN  sub' = [sub EXCEPT ![s] =
                IF v # "ok"
                THEN [NewSub EXCEPT !.pc = "rejected", !.reject = v, !.params = model_params]
                ELSE IF c.err # Null
                THEN [NewSub EXCEPT !.pc = "rejected", !.reject = c.err, !.params = model_params]
                ELSE [NewSub EXCEPT !.pc = "priced", !.params = model_params,
                                    !.key = key_id, !.final_cost = c.final_cost,
                                    !.prime_cost = c.prime_cost]]
    /\ UNCHANGED <<balance, prices, user_prices, users, worker_status, now_utc, report, down, tasks, queue, dlq, handlers, clock, faults,
                   adminOps, ledger, refunds>>

\* GenerationService._deduct_funds
SubmitDeduct(s) ==
    /\ sub[s].pc = "priced"
    /\ LET k == sub[s].key
           r == deduct_from_balance(balance[k], sub[s].final_cost)
       IN  /\ balance' = [balance EXCEPT ![k] = r.bal]
           /\ ledger' = [ledger EXCEPT ![k].debits = @ + (IF r.ok THEN sub[s].final_cost ELSE 0)]
           /\ sub' = [sub EXCEPT ![s] =
                IF r.ok THEN [@ EXCEPT !.pc = "deducted", !.debited = balance[k] - r.bal]
                ELSE [NewSub EXCEPT !.pc = "rejected", !.reject = "InsufficientFunds",
                                    !.params = sub[s].params]]
    /\ UNCHANGED <<prices, user_prices, users, worker_status, now_utc, report, down, tasks, queue, dlq, handlers, clock, faults, adminOps, refunds>>

\* create_generation_task with insert_one ahead of _deduct_funds.
SubmitInsertEarly(s) ==
    /\ sub[s].pc = "priced"
    /\ tasks' = [tasks EXCEPT ![s] =
            _prepare_task_document(s, sub[s].params, sub[s].final_cost,
                                   sub[s].prime_cost, sub[s].key, clock)]
    /\ sub' = [sub EXCEPT ![s].pc = "inserted", ![s].created_at = clock]
    /\ clock' = clock + 1
    /\ UNCHANGED <<balance, prices, user_prices, users, worker_status, now_utc, report,
                   down, queue, dlq, handlers, faults, adminOps, ledger, refunds>>

\* create_generation_task: uuid4, _prepare_task_document, insert_one
SubmitInsert(s) ==
    /\ sub[s].pc = "deducted"
    /\ tasks' = [tasks EXCEPT ![s] =
            _prepare_task_document(s, sub[s].params, sub[s].final_cost,
                                   sub[s].prime_cost, sub[s].key, clock)]
    /\ sub' = [sub EXCEPT ![s].pc = "inserted", ![s].created_at = clock]
    /\ clock' = clock + 1
    /\ UNCHANGED <<balance, prices, user_prices, users, worker_status, now_utc, report, down, queue, dlq, handlers, faults, adminOps, ledger, refunds>>

\* generate: declare_queue, default_exchange.publish(persistent message)
SubmitPublish(s) ==
    /\ sub[s].pc = "inserted"
    /\ LET doc == _prepare_task_document(s, sub[s].params, sub[s].final_cost,
                                         sub[s].prime_cost, sub[s].key, sub[s].created_at)
       IN  queue' = queue \cup {[body |-> TaskMessageBody(s, doc), n |-> 0]}
    /\ sub' = [sub EXCEPT ![s].pc = "done"]
    /\ UNCHANGED <<balance, prices, user_prices, users, worker_status, now_utc, report, down, tasks, dlq, handlers, clock, faults, adminOps,
                   ledger, refunds>>

\* create_generation_task, insert_one raises: the exception leaves the
\* request handler and the request is answered with an error.
SubmitInsertRaises(s) ==
    /\ sub[s].pc = "deducted"
    /\ faults < MaxFaults /\ faults' = faults + 1
    /\ sub' = [sub EXCEPT ![s].pc = "error"]
    /\ UNCHANGED <<balance, prices, user_prices, users, worker_status, now_utc, report,
                   down, tasks, queue, dlq, handlers, clock, adminOps, ledger, refunds>>

\* generate, declare_queue or publish raises after the record was inserted.
SubmitPublishRaises(s) ==
    /\ sub[s].pc = "inserted"
    /\ faults < MaxFaults /\ faults' = faults + 1
    /\ sub' = [sub EXCEPT ![s].pc = "error"]
    /\ UNCHANGED <<balance, prices, user_prices, users, worker_status, now_utc, report,
                   down, tasks, queue, dlq, handlers, clock, adminOps, ledger, refunds>>

\* generate as main.py has it: the service is built without a tasks
\* collection and the message is published with no record inserted.
generate(s) ==
    /\ sub[s].pc = "deducted"
    /\ LET doc == _prepare_task_document(s, sub[s].params, sub[s].final_cost,
                                         sub[s].prime_cost, sub[s].key, clock)
       IN  queue' = queue \cup {[body |-> TaskMessageBody(s, doc), n |-> 0]}
    /\ sub' = [sub EXCEPT ![s].pc = "done", ![s].created_at = clock]
    /\ clock' = clock + 1
    /\ UNCHANGED <<balance, prices, user_prices, users, worker_status, now_utc, report, down, tasks, dlq, handlers,
                   faults, adminOps, ledger, refunds>>

\* ------------------------------------------------------------------ broker
\* Deliveries a worker's channel holds unacknowledged.
Unacked(w) == {h \in handlers : h.w = w /\ h.live}

\* queue.consume(on_message) under set_qos(prefetch_count=MAX_CONCURRENT_TASKS):
\* the broker hands a ready message to a consumer whose unacknowledged count
\* is below the prefetch count, and on_message starts for it.
DeliverWithin(w, m, prefetch_count) ==
    /\ m \in queue
    /\ w \notin down
    /\ Cardinality(Unacked(w)) < prefetch_count
    /\ queue' = queue \ {m}
    /\ handlers' = handlers \cup
           {[w |-> w, body |-> m.body, n |-> m.n, pc |-> "start", live |-> TRUE, out |-> Null]}
    /\ UNCHANGED <<balance, prices, user_prices, users, worker_status, now_utc, report, down, tasks, dlq, sub, clock, faults, adminOps,
                   ledger, refunds>>

Deliver(w, m) == DeliverWithin(w, m, MAX_CONCURRENT_TASKS)

\* A message the broker puts back on the queue when its channel closes.
NotRequeued(hs) == {}

Requeued(hs) == {[body |-> h.body, n |-> h.n + 1] : h \in hs}

\* The worker process dies: its coroutines are gone, the broker requeues what
\* the process held unacknowledged.
WorkerCrash(w) ==
    /\ faults < MaxFaults
    /\ \E h \in handlers : h.w = w
    /\ queue' = queue \cup Requeued(Unacked(w))
    /\ handlers' = {h \in handlers : h.w # w}
    /\ faults' = faults + 1
    /\ down' = down \cup {w}
    /\ UNCHANGED <<balance, prices, user_prices, users, worker_status, now_utc, report, tasks, dlq, sub, clock,
                   adminOps, ledger, refunds>>

\* worker.main up to queue.consume: the process starts again, connects,
\* sets the prefetch count, declares the exchanges and queues and consumes.
main(w) ==
    /\ w \in down
    /\ down' = down \ {w}
    /\ UNCHANGED <<balance, prices, user_prices, users, worker_status, now_utc, report, tasks, queue, dlq,
                   handlers, sub, clock, faults, adminOps, ledger, refunds>>

\* The AMQP connection drops and connect_robust restores it: the broker
\* requeues what the channel held unacknowledged, the coroutines keep running.
ConnectionLost(w) ==
    /\ faults < MaxFaults
    /\ Unacked(w) # {}
    /\ queue' = queue \cup Requeued(Unacked(w))
    /\ handlers' = {IF h.w = w THEN [h EXCEPT !.live = FALSE] ELSE h : h \in handlers}
    /\ faults' = faults + 1
    /\ UNCHANGED <<balance, prices, user_prices, users, worker_status, now_utc, report, down, tasks, dlq, sub, clock, adminOps, ledger, refunds>>

\* ------------------------------------------------------------------ worker
Step(h, h2) == handlers' = (handlers \ {h}) \cup {h2}

\* A call to the task store or the ledger raises (the database is unreachable).
Raises == faults < MaxFaults /\ faults' = faults + 1

\* process_task, lines 45-67: the claim upsert.
Claim(h) ==
    /\ h \in handlers /\ h.pc = "start"
    /\ tasks' = [tasks EXCEPT ![h.body._id] = claim_update(@, h.body, h.w)]
    /\ Step(h, [h EXCEPT !.pc = "claimed"])
    /\ UNCHANGED faults
    /\ UNCHANGED <<balance, prices, user_prices, users, worker_status, now_utc, report, down, queue, dlq, sub, clock,
                   adminOps, ledger, refunds>>

\* process_task, line 67: the store raises; the exception leaves process_task.
ClaimRaises(h) ==
    /\ h \in handlers /\ h.pc = "start"
    /\ Raises
    /\ Step(h, [h EXCEPT !.pc = "reject", !.out = "store_error"])
    /\ UNCHANGED <<balance, prices, user_prices, users, worker_status, now_utc, report, down, tasks, queue, dlq, sub,
                   clock, adminOps, ledger, refunds>>

\* process_task with the processor lookup ahead of the try block: the
\* ValueError of an unknown model leaves process_task.
ProcessOutsideTry(h) ==
    /\ h \in handlers /\ h.pc = "claimed"
    /\ IF h.body.model \notin MODEL_PROCESSORS
       THEN Step(h, [h EXCEPT !.pc = "reject", !.out = "no_processor"])
       ELSE \/ Step(h, [h EXCEPT !.pc = "completing", !.out = "result_data"])
            \/ Step(h, [h EXCEPT !.pc = "failing", !.out = "processor_error"])
    /\ UNCHANGED <<balance, prices, user_prices, users, worker_status, now_utc, report, down, tasks, queue, dlq, sub, clock, faults,
                   adminOps, ledger, refunds>>

\* process_task, lines 69-83: processor lookup and call; the processor is
\* opaque and either returns a result or raises.
Process(h) ==
    /\ h \in handlers /\ h.pc = "claimed"
    /\ IF h.body.model \notin MODEL_PROCESSORS
       THEN Step(h, [h EXCEPT !.pc = "failing", !.out = "no_processor"])
       ELSE \/ Step(h, [h EXCEPT !.pc = "completing", !.out = "result_data"])
            \/ Step(h, [h EXCEPT !.pc = "failing", !.out = "processor_error"])
    /\ UNCHANGED <<balance, prices, user_prices, users, worker_status, now_utc, report, down, tasks, queue, dlq, sub, clock, faults,
                   adminOps, ledger, refunds>>

\* process_task, lines 85-87: the completed write.
Complete(h) ==
    /\ h \in handlers /\ h.pc = "completing"
    /\ tasks' = [tasks EXCEPT ![h.body._id] = complete_update(@, h.out)]
    /\ Step(h, [h EXCEPT !.pc = "ack", !.out = Null])
    /\ UNCHANGED faults
    /\ UNCHANGED <<balance, prices, user_prices, users, worker_status, now_utc, report, down, queue, dlq, sub, clock,
                   adminOps, ledger, refunds>>

\* process_task, line 86: the store raises; the raise lands in the except
\* branch like a processor error.
CompleteRaises(h) ==
    /\ h \in handlers /\ h.pc = "completing"
    /\ Raises
    /\ Step(h, [h EXCEPT !.pc = "failing", !.out = "store_error"])
    /\ UNCHANGED <<balance, prices, user_prices, users, worker_status, now_utc, report, down, tasks, queue, dlq, sub,
                   clock, adminOps, ledger, refunds>>

\* The failed write without the _id filter: every record is updated.
FailAll(h) ==
    /\ h \in handlers /\ h.pc = "failing"
    /\ tasks' = [t \in TaskIds |-> fail_update(tasks[t], h.out)]
    /\ Step(h, [h EXCEPT !.pc = "refund", !.out = Null])
    /\ UNCHANGED faults
    /\ UNCHANGED <<balance, prices, user_prices, users, worker_status, now_utc, report, down, queue, dlq, sub, clock,
                   adminOps, ledger, refunds>>

\* process_task, lines 89-91: the failed write.
Fail(h) ==
    /\ h \in handlers /\ h.pc = "failing"
    /\ tasks' = [tasks EXCEPT ![h.body._id] = fail_update(@, h.out)]
    /\ Step(h, [h EXCEPT !.pc = "refund", !.out = Null])
    /\ UNCHANGED faults
    /\ UNCHANGED <<balance, prices, user_prices, users, worker_status, now_utc, report, down, queue, dlq, sub, clock,
                   adminOps, ledger, refunds>>

\* process_task, line 91: the store raises; the exception leaves process_task.
FailRaises(h) ==
    /\ h \in handlers /\ h.pc = "failing"
    /\ Raises
    /\ Step(h, [h EXCEPT !.pc = "reject", !.out = "store_error"])
    /\ UNCHANGED <<balance, prices, user_prices, users, worker_status, now_utc, report, down, tasks, queue, dlq, sub,
                   clock, adminOps, ledger, refunds>>

\* refund_on_failure: the condition under which the credit is issued.
refund_due(task) == task.api_key_id # 0

\* The amount refund_on_failure credits.
refund_prime_cost(task) == task.prime_cost

cost_to_refund(task) == task.cost

\* process_task line 92 -> refund_on_failure: the credit, from the message's
\* fields; out holds which of the three log lines the call ended on.
Refund(h) ==
    /\ h \in handlers /\ h.pc = "refund"
    /\ LET k == h.body.api_key_id
           t == h.body._id
           amount == cost_to_refund(h.body)
       IN  IF refund_due(h.body)
           THEN /\ k \in KeyIds
                /\ balance' = [balance EXCEPT ![k] = refund_balance(@, amount)]
                /\ ledger' = [ledger EXCEPT ![k].credits = @ + amount]
                /\ refunds' = [refunds EXCEPT ![t].auto = @ + amount]
           ELSE UNCHANGED <<balance, ledger, refunds>>
    /\ Step(h, [h EXCEPT !.pc = "ack",
                         !.out = IF refund_due(h.body) THEN "credited" ELSE "no_credit"])
    /\ UNCHANGED faults
    /\ UNCHANGED <<prices, user_prices, users, worker_status, now_utc, report, down, tasks, queue, dlq, sub, clock,
                   adminOps>>

\* refund_on_failure without its own except: the raise of the credit
\* leaves process_task.
RefundRaisesPropagates(h) ==
    /\ h \in handlers /\ h.pc = "refund"
    /\ refund_due(h.body)
    /\ Raises
    /\ Step(h, [h EXCEPT !.pc = "reject", !.out = "credit_error"])
    /\ UNCHANGED <<balance, ledger, refunds>>
    /\ UNCHANGED <<prices, user_prices, users, worker_status, now_utc, report, down, tasks, queue, dlq, sub, clock,
                   adminOps>>

\* refund_on_failure, lines 104-109: the credit raises; the exception is
\* logged and swallowed.
RefundRaises(h) ==
    /\ h \in handlers /\ h.pc = "refund"
    /\ refund_due(h.body)
    /\ Raises
    /\ Step(h, [h EXCEPT !.pc = "ack", !.out = "credit_error"])
    /\ UNCHANGED <<balance, ledger, refunds>>
    /\ UNCHANGED <<prices, user_prices, users, worker_status, now_utc, report, down, tasks, queue, dlq, sub, clock,
                   adminOps>>

\* on_message with message.process(requeue=True): a raise puts the message
\* back on the primary queue.
SettleRequeue(h) ==
    /\ h \in handlers /\ h.pc \in {"ack", "reject"}
    /\ handlers' = handlers \ {h}
    /\ queue' = IF h.pc = "reject" /\ h.live
                THEN queue \cup {[body |-> h.body, n |-> h.n + 1]} ELSE queue
    /\ UNCHANGED <<balance, prices, user_prices, users, worker_status, now_utc, report, down, tasks, dlq, sub, clock,
                   faults, adminOps, ledger, refunds>>

\* on_message, leaving message.process(requeue=False): ack after a normal
\* return, reject without requeue (dead-lettered) after a raise.  On a
\* delivery whose channel is gone the ack / reject raises and is logged.
Settle(h) ==
    /\ h \in handlers /\ h.pc \in {"ack", "reject"}
    /\ handlers' = handlers \ {h}
    /\ dlq' = IF h.pc = "reject" /\ h.live
              THEN dlq \cup {[body |-> h.body, n |-> h.n]} ELSE dlq
    /\ UNCHANGED <<balance, prices, user_prices, users, worker_status, now_utc, report, down, tasks, queue, sub, clock, faults, adminOps,
                   ledger, refunds>>

\* ------------------------------------------------------------------- admin
\* POST /tasks/{task_id}/retry
retry_failed_task(t) ==
    /\ tasks' = [tasks EXCEPT ![t] = retry_update(@)]
    /\ UNCHANGED <<balance, prices, user_prices, users, worker_status, now_utc, report, down, queue, dlq, handlers, sub, clock, faults,
                   adminOps, ledger, refunds>>

ManualRefunds == Cardinality({t \in TaskIds : refunds[t].nmanual > 0})

\* POST /tasks/{task_id}/refund: find_one, credit, error annotation.  The
\* fields read (api_key_id, cost) never change, so the three statements are
\* taken as one step.
refund_failed_task(t) ==
    /\ refunds[t].nmanual = 0 /\ ManualRefunds < MaxManualRefunds
    /\ tasks[t].status # "none"
    /\ tasks[t].api_key_id # 0 /\ tasks[t].cost > 0
    /\ LET k == tasks[t].api_key_id
           amount == tasks[t].cost
       IN  /\ balance' = [balance EXCEPT ![k] = refund_balance(@, amount)]
           /\ ledger' = [ledger EXCEPT ![k].credits = @ + amount]
           /\ refunds' = [refunds EXCEPT ![t].manual = @ + amount, ![t].nmanual = @ + 1]
    /\ tasks' = [tasks EXCEPT ![t] = manual_refund_update(@)]
    /\ UNCHANGED <<prices, user_prices, users, worker_status, now_utc, report, down, queue, dlq, handlers, sub, clock, faults, adminOps>>

\* PATCH /keys/{key_value}/topup
top_up_key_balance(k, amount) ==
    /\ adminOps < MaxAdminOps
    /\ balance' = [balance EXCEPT ![k] = add_to_balance(@, amount)]
    /\ ledger' = [ledger EXCEPT ![k].credits = @ + amount]
    /\ adminOps' = adminOps + 1
    /\ UNCHANGED <<prices, user_prices, users, worker_status, now_utc, report, down, tasks, queue, dlq, handlers, sub, clock, faults, refunds>>

\* PATCH /keys/{key_id}/balance
update_key_balance(k, new_balance) ==
    /\ adminOps < MaxAdminOps
    /\ balance' = [balance EXCEPT ![k] = update_balance_by_id(@, new_balance)]
    /\ ledger' = [ledger EXCEPT ![k].overwritten = TRUE]
    /\ adminOps' = adminOps + 1
    /\ UNCHANGED <<prices, user_prices, users, worker_status, now_utc, report, down, tasks, queue, dlq, handlers, sub, clock, faults, refunds>>

\* A message for an existing task identity whose cost fields differ from the
\* stored ones reaches the queue (a replayed or rebuilt payload).
PublishAltered(t) ==
    /\ faults < MaxFaults
    /\ sub[t].pc = "done"
    /\ LET body == TaskMessageBody(t, tasks[t])
       IN  queue' = queue \cup
               {[body |-> [body EXCEPT !.cost = @ + Unit, !.prime_cost = @ + Unit], n |-> 0]}
    /\ faults' = faults + 1
    /\ UNCHANGED <<balance, prices, user_prices, users, worker_status, now_utc, report, down, tasks, dlq, handlers, sub, clock, adminOps,
                   ledger, refunds>>

\* ----------------------------------------------------------------- workers
\* get_workers_status: (now_utc - last_heartbeat_aware) < timedelta(seconds=30)
ALIVE_TIMEDELTA == 30

is_alive_inclusive(at, last_heartbeat) == (at - last_heartbeat) <= ALIVE_TIMEDELTA

is_alive(at, last_heartbeat) == (at - last_heartbeat) < ALIVE_TIMEDELTA

\* Wall-clock time passes.
TickSeconds == {15, 30}

Tick(d) ==
    /\ now_utc + d <= MaxNow
    /\ now_utc' = now_utc + d
    /\ UNCHANGED <<balance, prices, tasks, queue, dlq, handlers, sub, clock, faults,
                   adminOps, ledger, refunds, user_prices, users, worker_status,
                   report, down>>

\* A running worker writes its heartbeat record.
heartbeat(w) ==
    /\ w \notin down
    /\ worker_status' = [worker_status EXCEPT
                             ![w] = [present |-> TRUE, last_heartbeat |-> now_utc]]
    /\ UNCHANGED <<balance, prices, tasks, queue, dlq, handlers, sub, clock, faults,
                   adminOps, ledger, refunds, user_prices, users, now_utc, report, down>>

\* GET /workers/status
get_workers_status ==
    /\ report' = [w \in Workers |->
                     IF worker_status[w].present
                     THEN [present |-> TRUE,
                           is_alive |-> is_alive(now_utc, worker_status[w].last_heartbeat),
                           age |-> now_utc - worker_status[w].last_heartbeat]
                     ELSE NoWorkerData]
    /\ UNCHANGED <<balance, prices, tasks, queue, dlq, handlers, sub, clock, faults,
                   adminOps, ledger, refunds, user_prices, users, worker_status,
                   now_utc, down>>

\* DELETE /workers/{worker_id}: 404 when no record was deleted.
delete_worker_status(w) ==
    /\ worker_status[w].present
    /\ worker_status' = [worker_status EXCEPT ![w] = NoWorkerDoc]
    /\ UNCHANGED <<balance, prices, tasks, queue, dlq, handlers, sub, clock, faults,
                   adminOps, ledger, refunds, user_prices, users, now_utc, report, down>>

\* ------------------------------------------------------------ specification
\* Submission, broker and worker when every call returns.
Submission ==
    \/ \E s \in TaskIds, k \in KeyIds, mp \in ModelParams : SubmitPrice(s, k, mp)
    \/ \E s \in TaskIds : SubmitDeduct(s)
    \/ \E s \in TaskIds : SubmitInsert(s)
    \/ \E s \in TaskIds : SubmitPublish(s)

\* The statements of process_task and on_message when every call returns.
Execute ==
    \/ \E h \in handlers : Claim(h)
    \/ \E h \in handlers : Process(h)
    \/ \E h \in handlers : Complete(h)
    \/ \E h \in handlers : Fail(h)
    \/ \E h \in handlers : Refund(h)
    \/ \E h \in handlers : Settle(h)

Reliable ==
    \/ Submission
    \/ \E w \in Workers, m \in queue : Deliver(w, m)
    \/ \E w \in Workers : main(w)
    \/ Execute

\* Store and ledger calls that raise.
StoreRaises ==
    \/ \E h \in handlers : ClaimRaises(h)
    \/ \E h \in handlers : CompleteRaises(h)
    \/ \E h \in handlers : FailRaises(h)
    \/ \E h \in handlers : RefundRaises(h)

\* Submission, broker and worker.
Pipeline ==
    \/ Reliable
    \/ StoreRaises
    \/ \E w \in Workers : WorkerCrash(w)
    \/ \E w \in Workers : ConnectionLost(w)

\* The pipeline with the admin task endpoints.
Next ==
    \/ Pipeline
    \/ \E t \in TaskIds : retry_failed_task(t)
    \/ \E t \in TaskIds : refund_failed_task(t)

Spec == Init /\ [][Next]_vars

\* The pipeline with the admin key endpoints (non-negative arguments).
NextLedger ==
    \/ Pipeline
    \/ \E k \in KeyIds, a \in TopUpAmounts : top_up_key_balance(k, a)
    \/ \E k \in KeyIds, v \in SetBalanceValues : update_key_balance(k, v)

SpecLedger == Init /\ [][NextLedger]_vars

\* The pipeline with the admin key endpoints, arguments of either sign.
NextAdmin ==
    \/ Pipeline
    \/ \E k \in KeyIds, a \in AnyTopUpAmounts : top_up_key_balance(k, a)
    \/ \E k \in KeyIds, v \in AnySetBalanceValues : update_key_balance(k, v)

SpecAdmin == Init /\ [][NextAdmin]_vars

\* Submissions alone, over the pricing tables.
NextPricing ==
    \/ \E s \in TaskIds, k \in KeyIds, mp \in PricingParams : SubmitPrice(s, k, mp)
    \/ \E s \in TaskIds : SubmitDeduct(s)
    \/ \E s \in TaskIds : SubmitInsert(s)
    \/ \E s \in TaskIds : SubmitPublish(s)

SpecPricing == InitPricing /\ [][NextPricing]_vars

\* Submission and execution over the pricing tables, every call returning.
NextCycle ==
    \/ NextPricing
    \/ \E w \in Workers, m \in queue : Deliver(w, m)
    \/ Execute

SpecCycle == InitPricing /\ [][NextCycle]_vars

\* Submission and execution where the record is written by whichever of
\* insert_one and the claim upsert comes first.
NextUpsert ==
    \/ Submission
    \/ \E s \in TaskIds : generate(s)
    \/ \E w \in Workers, m \in queue : Deliver(w, m)
    \/ Execute

SpecUpsert == Init /\ [][NextUpsert]_vars

\* Pricing alone, over every parameter object _calculate_costs can be given.
NextQuote ==
    \E s \in TaskIds, k \in KeyIds, mp \in QuoteParams : SubmitPrice(s, k, mp)

SpecQuote == InitPricing /\ [][NextQuote]_vars

\* The pipeline next to the worker status records and their admin endpoints.
NextWorkers ==
    \/ Submission
    \/ \E w \in Workers, m \in queue : Deliver(w, m)
    \/ Execute
    \/ \E d \in TickSeconds : Tick(d)
    \/ \E w \in Workers : heartbeat(w)
    \/ get_workers_status
    \/ \E w \in Workers : delete_worker_status(w)

SpecWorkers == Init /\ [][NextWorkers]_vars

\* Submission with a store or broker call that raises after the debit.
NextSubmit ==
    \/ Submission
    \/ \E s \in TaskIds : SubmitInsertRaises(s)
    \/ \E s \in TaskIds : SubmitPublishRaises(s)
    \/ \E w \in Workers, m \in queue : Deliver(w, m)
    \/ Execute

SpecSubmit == Init /\ [][NextSubmit]_vars

\* One worker process holding several deliveries at once: on_message
\* coroutines of different tasks interleave statement by statement, and the
\* compensating credit may raise.
Consume(w, m) == DeliverWithin(w, m, MaxInFlight)

NextIsolation ==
    \/ Submission
    \/ \E w \in Workers, m \in queue : Consume(w, m)
    \/ Execute
    \/ \E h \in handlers : RefundRaises(h)

\* The event loop runs every coroutine that is ready; the broker delivers
\* to a consumer below its prefetch count.
FairnessIsolation ==
    /\ WF_vars(\E s \in TaskIds : SubmitInsert(s))
    /\ WF_vars(\E s \in TaskIds : SubmitPublish(s))
    /\ WF_vars(\E w \in Workers, m \in queue : Consume(w, m))
    /\ WF_vars(\E h \in handlers : Claim(h))
    /\ WF_vars(\E h \in handlers : Process(h))
    /\ WF_vars(\E h \in handlers : Complete(h))
    /\ WF_vars(\E h \in handlers : Fail(h))
    /\ WF_vars(\E h \in handlers : Refund(h))
    /\ WF_vars(\E h \in handlers : Settle(h))

SpecIsolation == Init /\ [][NextIsolation]_vars /\ FairnessIsolation

\* The pipeline and the admin task endpoints, with altered duplicates.
NextAltered ==
    \/ Next
    \/ \E t \in TaskIds : PublishAltered(t)

SpecAltered == Init /\ [][NextAltered]_vars

\* The pipeline with worker crashes as the only fault, under the scheduling
\* the event loops and the broker give: a request handler that can take its
\* next statement takes it, a ready message is delivered to a consumer with
\* capacity, a coroutine that can take its next statement takes it and the
\* processor returns or raises, and a dead worker process is started again.
NextLive ==
    \/ Reliable
    \/ \E w \in Workers : WorkerCrash(w)

Fairness ==
    /\ WF_vars(\E s \in TaskIds : SubmitInsert(s))
    /\ WF_vars(\E s \in TaskIds : SubmitPublish(s))
    /\ WF_vars(\E w \in Workers, m \in queue : Deliver(w, m))
    /\ WF_vars(\E w \in Workers : main(w))
    /\ WF_vars(\E h \in handlers : Claim(h))
    /\ WF_vars(\E h \in handlers : Process(h))
    /\ WF_vars(\E h \in handlers : Complete(h))
    /\ WF_vars(\E h \in handlers : Fail(h))
    /\ WF_vars(\E h \in handlers : Refund(h))
    /\ WF_vars(\E h \in handlers : Settle(h))

SpecLive == Init /\ [][NextLive]_vars /\ Fairness

\* The fair pipeline with the admin retry endpoint.
NextRetry ==
    \/ NextLive
    \/ \E t \in TaskIds : retry_failed_task(t)

SpecRetry == Init /\ [][NextRetry]_vars /\ Fairness

\* ------------------------------------------------------------------ claims
Messages == queue \cup dlq \cup {[body |-> h.body, n |-> h.n] : h \in handlers}
Immutable(doc) == <<doc.user_telegram_id, doc.api_key_id, doc.model, doc.params,
                    doc.cost, doc.prime_cost, doc.created_at>>
\* Request s passes its debit statement in this step.
DebitStep(s) == sub[s].pc = "priced" /\ sub'[s].pc # "priced"
\* Handler h2 is handler h one statement later.
Advanced(h, h2) ==
    /\ h \in handlers /\ h \notin handlers'
    /\ h2 \in handlers' /\ h2 \notin handlers
    /\ h2.w = h.w /\ h2.body = h.body /\ h2.n = h.n

\* C1: under every interleaving of the debits of concurrent submissions
\* (with refunds and non-negative admin credits), no key's balance is ever
\* below zero.
C1_BalanceNonNegative == \A k \in KeyIds : balance[k] >= 0

\* Two submissions have debited the same key down to zero and a later one
\* would be refused.
C1_Witness ==
    \E s1, s2 \in TaskIds :
        /\ s1 # s2 /\ sub[s1].key = sub[s2].key
        /\ sub[s1].debited > 0 /\ sub[s2].debited > 0
        /\ balance[sub[s1].key] = 0

\* C2: a debit returns true and lowers the balance by exactly the amount
\* iff the balance is >= the amount when the statement takes effect;
\* otherwise it returns false (InsufficientFunds) and the balance is unchanged.
C2_DebitIffCovered ==
    [][\A s \in TaskIds : DebitStep(s) =>
          LET k == sub[s].key
              amount == sub[s].final_cost
          IN  IF balance[k] >= amount
              THEN sub'[s].pc = "deducted" /\ balance'[k] = balance[k] - amount
              ELSE /\ sub'[s].pc = "rejected"
                   /\ sub'[s].reject = "InsufficientFunds"
                   /\ balance'[k] = balance[k]]_vars

\* A debit of exactly the whole balance has succeeded.
C2_Witness ==
    \E s \in TaskIds :
        /\ sub[s].pc = "deducted" /\ sub[s].debited = sub[s].final_cost
        /\ balance[sub[s].key] = 0

\* C3: without an admin overwrite, a key's balance equals its initial
\* balance minus the amounts of the debits that returned true plus the
\* amounts of all credits (refund_balance, add_to_balance): no update is lost.
C3_NoLostUpdate ==
    \A k \in KeyIds :
        ~ledger[k].overwritten =>
            balance[k] = InitBalance - ledger[k].debits + ledger[k].credits

\* Debits, an automatic refund and an admin top-up have all hit one key.
C3_Witness ==
    \E k \in KeyIds, t \in TaskIds :
        /\ ~ledger[k].overwritten /\ adminOps > 0
        /\ ledger[k].debits > sub[t].debited /\ sub[t].debited > 0
        /\ refunds[t].auto > 0 /\ sub[t].key = k

\* C4: the charge in a task's document equals the amount debited from the
\* owning key at submission, and every automatic refund issued for the task
\* credits that key by exactly the stored charge.
C4_ChargeDebitedAndRefunded ==
    /\ [](\A t \in TaskIds : tasks[t].status # "none" =>
              /\ tasks[t].cost = sub[t].debited
              /\ tasks[t].api_key_id = sub[t].key)
    /\ [][\A t \in TaskIds : refunds'[t].auto # refunds[t].auto =>
              LET k == tasks[t].api_key_id
              IN  /\ k \in KeyIds
                  /\ balance'[k] - balance[k] = tasks[t].cost
                  /\ tasks[t].cost = sub[t].debited]_vars

\* A task with a positive charge has failed and been refunded.
C4_Witness ==
    \E t \in TaskIds :
        /\ tasks[t].status = "failed" /\ tasks[t].cost > 0
        /\ refunds[t].auto = tasks[t].cost

\* C5: a submission rejected with PriceNotConfigured, ModelDisabled or
\* InsufficientFunds has no task document and no message, and the step that
\* rejects it changes no balance, no document and no queue.
C5_RejectedLeavesNothing ==
    /\ [](\A s \in TaskIds : sub[s].pc = "rejected" =>
              /\ sub[s].reject \in {"PriceNotConfigured", "ModelDisabled", "InsufficientFunds"}
              /\ tasks[s].status = "none"
              /\ \A m \in Messages : m.body._id # s)
    /\ [][\A s \in TaskIds : (sub[s].pc # "rejected" /\ sub'[s].pc = "rejected") =>
              /\ balance' = balance
              /\ tasks' = tasks
              /\ queue' = queue]_vars

\* A submission was refused for insufficient funds: the balance is below
\* the charge another submission of the same kind was accepted at.
C5_Witness ==
    \E s, r \in TaskIds :
        /\ sub[s].reject = "InsufficientFunds"
        /\ sub[r].debited > balance[sub[r].key]

\* C6: a task's status only changes along pending -> processing,
\* processing -> completed, processing -> failed and failed -> pending
\* (creation apart).
LifecycleEdges ==
    { <<"none", "pending">>, <<"none", "processing">>,
      <<"pending", "processing">>, <<"processing", "completed">>,
      <<"processing", "failed">>, <<"failed", "pending">> }
C6_LifecycleMonotonic ==
    [][\A t \in TaskIds : tasks'[t].status # tasks[t].status =>
          <<tasks[t].status, tasks'[t].status>> \in LifecycleEdges]_vars

\* C7: once a task document exists, its owner account, owner key, model,
\* params, charge, prime cost and created_at never change, whatever message
\* is delivered for its identity and whatever the admin task endpoints do.
C7_ImmutableFields ==
    [][\A t \in TaskIds : tasks[t].status # "none" =>
          Immutable(tasks'[t]) = Immutable(tasks[t])]_vars

\* A message carrying other cost fields was claimed for an existing task.
C7_Witness ==
    \E h \in handlers :
        /\ h.pc = "claimed"
        /\ h.body.cost # tasks[h.body._id].cost
        /\ tasks[h.body._id].processed_by = h.w

\* C8: a claim for a task that is already processing, completed or failed
\* is a no-op and does not lead to the processor being invoked.
C8_ClaimIdempotent ==
    [][\A h \in handlers, h2 \in handlers' :
          (/\ h.pc = "start" /\ Advanced(h, h2)
           /\ tasks[h.body._id].status \in {"processing", "completed", "failed"})
          => (tasks' = tasks /\ h2.pc # "claimed")]_vars

\* C9: no two workers are between claim and processor outcome for the same
\* task identity at the same time.
C9_OneExecutor ==
    \A h1, h2 \in handlers :
        (h1.pc = "claimed" /\ h2.pc = "claimed" /\ h1.body._id = h2.body._id)
        => h1.w = h2.w

\* C10: the statement that follows a processor's raise writes status failed
\* with the exception text and leaves the balance alone; the credit is
\* issued only by a handler that has written it, and raises the owning
\* key's balance by exactly the task's charge.
C10_FailThenRefund ==
    /\ [][\A h \in handlers, h2 \in handlers' :
              (h.pc = "failing" /\ Advanced(h, h2) /\ h2.pc = "refund") =>
                  /\ tasks'[h.body._id].status = "failed"
                  /\ tasks'[h.body._id].error = <<h.out>>
                  /\ balance' = balance]_vars
    /\ [][\A t \in TaskIds : refunds'[t].auto # refunds[t].auto =>
              \E h \in handlers \ handlers' :
                  /\ h.pc = "refund" /\ h.body._id = t
                  /\ balance' = [balance EXCEPT ![tasks[t].api_key_id] = @ + tasks[t].cost]]_vars

\* A task charged 20 failed on a processor error and its key is back at the
\* initial balance.
C10_Witness ==
    \E t \in TaskIds :
        /\ tasks[t].status = "failed" /\ tasks[t].error = <<"processor_error">>
        /\ tasks[t].cost = 20 * Unit /\ refunds[t].auto = 20 * Unit
        /\ \A s \in TaskIds \ {t} : sub[s].pc = "new"
        /\ balance[tasks[t].api_key_id] = InitBalance

\* C11: for every task, the credits issued on its account (automatic refunds,
\* repeated after redelivery too, plus admin manual refunds) never add up to
\* more than the task's charge.
C11_RefundAtMostOnce ==
    \A t \in TaskIds :
        tasks[t].status # "none" =>
            refunds[t].auto + refunds[t].manual <= tasks[t].cost

\* C12: when a worker process has started again, every task its crashed
\* predecessor left in processing is pending, before the process takes any
\* delivery.
C12_SweepOnRestart ==
    [][\A w \in Workers : (w \in down /\ w \notin down') =>
          \A t \in TaskIds :
              (tasks[t].status = "processing" /\ tasks[t].processed_by = w)
              => tasks'[t].status = "pending"]_vars

\* C13: every submission whose debit has succeeded leads to its task being
\* completed or failed, also when a worker dies while the task is processing.
C13_AcceptedIsExecuted ==
    \A s \in TaskIds :
        (sub[s].pc = "deducted") ~> (tasks[s].status \in {"completed", "failed"})

\* A task was executed to its outcome on a delivery made after a crash.
C13_Witness ==
    \E h \in handlers :
        /\ h.n > 0 /\ h.pc = "ack"
        /\ sub[h.body._id].debited > 0
        /\ tasks[h.body._id].status \in {"completed", "failed"}

\* C14: when on_message leaves on a raise, the delivery it still holds is
\* dead-lettered and not put back on the primary queue, and a dead-lettered
\* message is never on the primary queue or with a consumer again.
C14_RaisedIsDeadLettered ==
    /\ [][\A h \in handlers :
              (h.pc = "reject" /\ h.live /\ h \notin handlers' /\ faults' = faults) =>
                  /\ dlq' = dlq \cup {[body |-> h.body, n |-> h.n]}
                  /\ queue' = queue]_vars
    /\ [](\A m \in dlq :
              /\ m \notin queue
              /\ \A h \in handlers : ~(h.body = m.body /\ h.n = m.n))

\* A message is dead-lettered, its handler gone and its task never executed.
C14_Witness ==
    \E m \in dlq :
        /\ \A h \in handlers : h.body._id # m.body._id
        /\ tasks[m.body._id].status = "pending"

\* C15: no worker process ever runs more on_message coroutines (deliveries
\* it has received and not yet acknowledged or rejected) than its maximum
\* concurrent task count.
C15_InFlightBounded ==
    \A w \in Workers :
        Cardinality({h \in handlers : h.w = w}) <= MAX_CONCURRENT_TASKS

\* C16: under all ledger operations together, the admin overwrite and the
\* admin top-up included, with any argument an admin can pass, no key's
\* balance is ever below zero.
C16_BalanceNonNegativeAnyArgument == \A k \in KeyIds : ~(balance[k] < 0)

\* C17: a credit of a positive amount raises the balance by exactly that
\* amount, and a credit of a non-positive amount leaves the balance unchanged
\* (refund_balance and add_to_balance both).
C17_CreditPositiveOnly ==
    [][\A k \in KeyIds :
          LET amount == ledger'[k].credits - ledger[k].credits
          IN  /\ amount > 0 => balance'[k] = balance[k] + amount
              /\ amount < 0 => balance'[k] = balance[k]]_vars

\* A request that has been priced.
Priced(s) == sub[s].pc \in {"priced", "deducted", "inserted", "done"}

\* C18: with no override for the model and an active catalog row, the charge
\* is base cost x multiplier x coefficient at 6 decimals (nearest) and the
\* internal cost is base prime cost x multiplier; cost 10, prime cost 2,
\* coefficient 1 and quantity 3 give 30.000000 and 6.000000.
C18_CatalogPrice ==
    \A s \in TaskIds :
        LET m == sub[s].params.model_name
            c == users[TheUser].coefficient
            mult == Multiplier(sub[s].params)
            exact == prices[m].cost * mult * c.num
            scaled == sub[s].final_cost * c.den
        IN  (Priced(s) /\ ~user_prices[m].present) =>
                /\ prices[m].present /\ prices[m].is_active
                /\ 2 * (scaled - exact) <= c.den /\ 2 * (exact - scaled) <= c.den
                /\ sub[s].prime_cost = prices[m].prime_cost * mult
                /\ (prices[m].cost = 10 * Unit /\ prices[m].prime_cost = 2 * Unit
                    /\ c.num = c.den /\ mult = 3)
                   => (sub[s].final_cost = 30 * Unit /\ sub[s].prime_cost = 6 * Unit)

\* Scenario A: charge 30, internal cost 6, and the debit of 30 from a balance
\* of 100 has left 70.
C18_Witness ==
    \E s \in TaskIds :
        /\ sub[s].pc = "deducted" /\ ~user_prices[sub[s].params.model_name].present
        /\ sub[s].params.num_images = 3 /\ users[TheUser].coefficient.num = 1
        /\ users[TheUser].coefficient.den = 1
        /\ sub[s].final_cost = 30 * Unit /\ sub[s].prime_cost = 6 * Unit
        /\ \A r \in TaskIds \ {s} : sub[r].pc = "new"
        /\ balance[sub[s].key] = 70 * Unit

\* C19: with an override for (account, model) the charge is custom cost x
\* multiplier whatever the account coefficient, and the internal cost is the
\* catalog's base prime cost x multiplier; custom cost 5 and quantity 2 give
\* 10.000000.
C19_OverridePrice ==
    \A s \in TaskIds :
        LET m == sub[s].params.model_name
            mult == Multiplier(sub[s].params)
        IN  (Priced(s) /\ user_prices[m].present) =>
                /\ sub[s].final_cost = user_prices[m].custom_cost * mult
                /\ sub[s].prime_cost = prices[m].prime_cost * mult
                /\ (user_prices[m].custom_cost = 5 * Unit /\ mult = 2)
                   => sub[s].final_cost = 10 * Unit

\* Scenario B under a coefficient other than 1: charge 10, internal cost 4.
C19_Witness ==
    \E s \in TaskIds :
        /\ Priced(s) /\ user_prices[sub[s].params.model_name].present
        /\ user_prices[sub[s].params.model_name].custom_cost = 5 * Unit
        /\ sub[s].params.num_images = 2
        /\ users[TheUser].coefficient.num # users[TheUser].coefficient.den
        /\ sub[s].final_cost = 10 * Unit /\ sub[s].prime_cost = 4 * Unit

\* C20: a request for a model the account has an override for is never
\* rejected with PriceNotConfigured or ModelDisabled: it is priced from the
\* override, whatever the state of the catalog row.
C20_OverrideNeedsNoCatalog ==
    \A s \in TaskIds :
        (sub[s].pc = "rejected" /\ user_prices[sub[s].params.model_name].present)
        => sub[s].reject \notin {"PriceNotConfigured", "ModelDisabled"}

\* Request s leaves price resolution in this step.
PriceStep(s) == sub[s].pc = "new" /\ sub'[s].pc # "new"

\* C21: without an override, a request for a model with no catalog row is
\* rejected with PriceNotConfigured and a request for a model whose row is
\* inactive with ModelDisabled; each rejection occurs in its own case only.
C21_DistinctPriceRejections ==
    [][\A s \in TaskIds : PriceStep(s) =>
          LET m == sub'[s].params.model_name
              rejected(e) == sub'[s].pc = "rejected" /\ sub'[s].reject = e
          IN  ~user_prices[m].present =>
                  /\ rejected("PriceNotConfigured") <=> ~prices[m].present
                  /\ rejected("ModelDisabled") <=>
                         (prices[m].present /\ ~prices[m].is_active)
                  /\ sub'[s].pc = "priced" <=>
                         (prices[m].present /\ prices[m].is_active)]_vars

\* One request was refused for a missing row and another for an inactive one.
C21_Witness ==
    \E s, r \in TaskIds :
        /\ sub[s].pc = "rejected" /\ sub[s].reject = "PriceNotConfigured"
        /\ ~prices[sub[s].params.model_name].present
        /\ sub[r].pc = "rejected" /\ sub[r].reject = "ModelDisabled"
        /\ prices[sub[r].params.model_name].present

C23_CreatedPending ==
    [][\A t \in TaskIds :
          (tasks[t].status = "none" /\ tasks'[t].status # "none")
          => tasks'[t].status = "pending"]_vars

\* C24: a task record, once in the Task Store, stays there under every step
\* of the pipeline and of the admin task endpoints.
C24_NeverDeleted ==
    [][\A t \in TaskIds : tasks[t].status # "none" => tasks'[t].status # "none"]_vars

\* Every task has a record after a failure, its automatic refund, a manual
\* refund and a retry.
C24_Witness ==
    /\ \A t \in TaskIds : tasks[t].status # "none"
    /\ \E t \in TaskIds :
          /\ tasks[t].status = "pending" /\ tasks[t].error = ErrNone
          /\ refunds[t].auto > 0 /\ refunds[t].nmanual = 1

\* C25: retry turns a failed record into a pending one with error null and
\* nothing else changed; on a record in any other status, or on no record,
\* it changes nothing; the step that retries leaves every balance alone.
C25_RetryOnlyFromFailed ==
    /\ [](\A t \in TaskIds :
             LET doc == tasks[t] IN
             IF doc.status = "failed"
             THEN retry_update(doc) = [doc EXCEPT !.status = "pending", !.error = ErrNone]
             ELSE retry_update(doc) = doc)
    /\ [][\A t \in TaskIds :
             (tasks[t].status = "failed" /\ tasks'[t].status = "pending")
             => /\ tasks'[t] = [tasks[t] EXCEPT !.status = "pending", !.error = ErrNone]
                /\ balance' = balance /\ ledger' = ledger /\ refunds' = refunds
                /\ \A u \in TaskIds \ {t} : tasks'[u] = tasks[u]]_vars

\* One task was failed, refunded and retried; the other is completed and a
\* retry of it is rejected.
C25_Witness ==
    \E t, u \in TaskIds :
        /\ tasks[t].status = "pending" /\ sub[t].pc = "done" /\ refunds[t].auto > 0
        /\ refunds[t].nmanual = 0
        /\ tasks[u].status = "completed"

\* C26: a request for a model with no registered processor is priced like
\* any other; at execution its handler goes from the claim to the failure
\* branch, the record becomes failed with the lookup error, the charge is
\* credited, and the delivery is acknowledged (not dead-lettered, not
\* requeued) with the worker still up.
C26_UnknownProcessorFails ==
    /\ [][\A s \in TaskIds : PriceStep(s) =>
              LET m == sub'[s].params.model_name IN
              (m \notin MODEL_PROCESSORS /\ prices[m].present /\ prices[m].is_active)
              => sub'[s].pc = "priced"]_vars
    /\ [][\A h \in handlers : h.body.model \notin MODEL_PROCESSORS =>
              /\ \A h2 \in handlers' : (Advanced(h, h2) /\ h2.live = h.live) =>
                    CASE h.pc = "claimed" ->
                             h2.pc = "failing" /\ h2.out = "no_processor" /\ down' = down
                      [] h.pc = "failing" /\ h2.pc = "refund" ->
                             /\ tasks'[h.body._id].status = "failed"
                             /\ tasks'[h.body._id].error = <<"no_processor">>
                      [] h.pc = "refund" /\ h2.out = "credited" ->
                             /\ h2.pc = "ack"
                             /\ balance'[h.body.api_key_id] =
                                    balance[h.body.api_key_id] + h.body.cost
                      [] OTHER -> TRUE
              /\ (h.pc = "ack" /\ h \notin handlers' /\ faults' = faults) =>
                    dlq' = dlq /\ queue' = queue /\ down' = down]_vars
    /\ [](\A t \in TaskIds :
              tasks[t].model \notin MODEL_PROCESSORS => tasks[t].status # "completed")

\* A random-model task charged 10 is failed with the lookup error and
\* refunded, its delivery settled, nothing dead-lettered, every worker up.
C26_Witness ==
    \E t \in TaskIds :
        /\ tasks[t].model = "random-model" /\ tasks[t].status = "failed"
        /\ tasks[t].error = <<"no_processor">>
        /\ tasks[t].cost = 10 * Unit /\ refunds[t].auto = 10 * Unit
        /\ \A h \in handlers : h.body._id # t
        /\ dlq = {} /\ down = {} /\ faults = 0

\* C27: a statement of one task's handler (its failure branch and its
\* refund, raising or not, included) changes no other task's record or
\* refund, ends no other handler and stops no worker; and every task that is
\* being processed reaches completed or failed.
C27_FailureIsolated ==
    /\ [][\A h \in handlers \ handlers' :
              /\ \A u \in TaskIds \ {h.body._id} :
                    tasks'[u] = tasks[u] /\ refunds'[u] = refunds[u]
              /\ \A g \in handlers \ {h} : g \in handlers'
              /\ down' = down]_vars
    /\ \A t \in TaskIds :
          (tasks[t].status = "processing") ~> (tasks[t].status \in {"completed", "failed"})

\* One worker holds two deliveries: one task failed and its handler is past
\* the refund, the other task completed.
C27_Witness ==
    \E h, g \in handlers :
        /\ h.w = g.w /\ h.body._id # g.body._id
        /\ h.pc = "ack" /\ h.out \in {"credited", "credit_error"}
        /\ tasks[h.body._id].status = "failed"
        /\ g.pc = "ack" /\ tasks[g.body._id].status = "completed"

\* C28: the step on which the compensating credit raises changes no record,
\* no balance and no refund and leaves the handler on its normal return; the
\* delivery is then acknowledged, neither requeued nor dead-lettered, so the
\* pipeline makes no second attempt.
C28_CreditFailureSwallowed ==
    /\ [][\A h \in handlers, h2 \in handlers' :
              (h.pc = "refund" /\ Advanced(h, h2) /\ h2.out = "credit_error") =>
                  /\ h2.pc = "ack"
                  /\ tasks' = tasks /\ balance' = balance /\ refunds' = refunds
                  /\ queue' = queue /\ dlq' = dlq /\ down' = down]_vars
    /\ [][\A h \in handlers \ handlers' :
              (h.out = "credit_error" /\ faults' = faults) =>
                  /\ h.pc = "ack"
                  /\ queue' = queue /\ dlq' = dlq
                  /\ tasks' = tasks /\ balance' = balance /\ refunds' = refunds]_vars

\* A task failed on a processor error, its credit raised and its delivery
\* is settled: the record is failed, nothing was credited, the key is short
\* of the charge and no message of the task is left anywhere.
C28_Witness ==
    \E t \in TaskIds :
        /\ tasks[t].status = "failed" /\ tasks[t].error = <<"processor_error">>
        /\ faults = 1 /\ refunds[t].auto = 0 /\ refunds[t].nmanual = 0
        /\ balance[tasks[t].api_key_id] = InitBalance - tasks[t].cost
        /\ \A s \in TaskIds \ {t} : sub[s].pc = "new"
        /\ handlers = {} /\ queue = {} /\ dlq = {}

\* C29: on a task failure the credit operation is issued exactly when the
\* task's charge is above zero and its key is known.
C29_CreditIffCharged ==
    [][\A h \in handlers, h2 \in handlers' :
          (h.pc = "refund" /\ Advanced(h, h2)) =>
              (h2.out = "credited" <=> (h.body.cost > 0 /\ h.body.api_key_id # 0))]_vars

\* C30: the prices of a request are its base prices times the duration for
\* a duration-priced model and times the quantity for any other model, and
\* times 1 when that field is absent or not positive; two requests for one
\* model that agree on that field have the same prices whatever the other
\* field holds.
C30_MultiplierField ==
    /\ \A s \in TaskIds :
          LET mp == sub[s].params
              m == mp.model_name
              field == IF m \in MODELS_WITH_DURATION_COST THEN mp.duration
                       ELSE mp.num_images
              mult == IF field > 0 THEN field ELSE 1
              c == users[TheUser].coefficient
          IN  Priced(s) =>
                  /\ sub[s].prime_cost = prices[m].prime_cost * mult
                  /\ user_prices[m].present =>
                         sub[s].final_cost = user_prices[m].custom_cost * mult
                  /\ (~user_prices[m].present /\ c.num = c.den) =>
                         sub[s].final_cost = prices[m].cost * mult
    /\ \A s, r \in TaskIds :
          LET a == sub[s].params
              b == sub[r].params
          IN  (Priced(s) /\ Priced(r) /\ a.model_name = b.model_name
               /\ IF a.model_name \in MODELS_WITH_DURATION_COST
                  THEN a.duration = b.duration ELSE a.num_images = b.num_images)
              => (sub[s].final_cost = sub[r].final_cost
                  /\ sub[s].prime_cost = sub[r].prime_cost)

\* Two video requests of duration 10 with quantities 3 and 0 are both priced
\* 40 (base 4, coefficient 1), and neither at 4 x 3.
C30_Witness ==
    \E s, r \in TaskIds :
        /\ Priced(s) /\ Priced(r)
        /\ sub[s].params.model_name = "video-model"
        /\ sub[r].params.model_name = "video-model"
        /\ sub[s].params.duration = 10 /\ sub[r].params.duration = 10
        /\ sub[s].params.num_images = 3 /\ sub[r].params.num_images = 0
        /\ ~user_prices["video-model"].present
        /\ users[TheUser].coefficient.num = users[TheUser].coefficient.den
        /\ sub[s].final_cost = 40 * Unit /\ sub[r].final_cost = 40 * Unit

\* C31: every completed record has a null error and every failed record has
\* an error, under every operation of the pipeline and of the admin task
\* endpoints.
C31_ErrorMatchesStatus ==
    \A t \in TaskIds :
        /\ tasks[t].status = "completed" => tasks[t].error = ErrNone
        /\ tasks[t].status = "failed" => tasks[t].error # ErrNone

\* C32: a reported worker is alive exactly when its heartbeat is less than
\* 30 seconds old; a step that writes or deletes a status record, or reports,
\* changes no task, balance, message or handler; and a delivery is claimed
\* whatever the worker's status record is.
C32_AliveIffRecent ==
    /\ [](\A w \in Workers :
             report[w].present => (report[w].is_alive <=> report[w].age < 30))
    /\ [][(worker_status' # worker_status \/ report' # report) =>
             /\ tasks' = tasks /\ balance' = balance /\ refunds' = refunds
             /\ queue' = queue /\ dlq' = dlq /\ handlers' = handlers]_vars
    /\ [](\A h \in handlers : h.pc = "start" => ENABLED Claim(h))
    /\ [][\A h \in handlers, h2 \in handlers' :
             (h.pc = "start" /\ Advanced(h, h2)) =>
                 tasks'[h.body._id] = claim_update(tasks[h.body._id], h.body, h.w)]_vars

\* A worker reported dead at a heartbeat age of exactly 30 seconds, and whose
\* record was then deleted, has claimed a task.
C32_Witness ==
    \E h \in handlers :
        /\ h.pc = "claimed" /\ tasks[h.body._id].status = "processing"
        /\ tasks[h.body._id].processed_by = h.w
        /\ report[h.w].present /\ ~report[h.w].is_alive /\ report[h.w].age = 30
        /\ ~worker_status[h.w].present

\* C33: a request goes from pricing to the debit to the insert to the
\* publish, in that order; every task record, and every message ready, held
\* by a handler or dead-lettered, belongs to a request whose debit succeeded
\* for exactly the charge the record or message carries, on its own key.
C33_DebitBeforeTask ==
    /\ [][\A s \in TaskIds : sub'[s].pc # sub[s].pc =>
             <<sub[s].pc, sub'[s].pc>> \in
                 {<<"new", "priced">>, <<"new", "rejected">>, <<"priced", "deducted">>,
                  <<"priced", "rejected">>, <<"deducted", "inserted">>,
                  <<"inserted", "done">>}]_vars
    /\ [](\A t \in TaskIds : tasks[t].status # "none" =>
             /\ sub[t].pc \in {"inserted", "done"}
             /\ sub[t].debited = tasks[t].cost /\ sub[t].key = tasks[t].api_key_id
             /\ ledger[sub[t].key].debits >= tasks[t].cost)
    /\ [](\A b \in {m.body : m \in queue \cup dlq} \cup {h.body : h \in handlers} :
             /\ sub[b._id].pc = "done"
             /\ sub[b._id].debited = b.cost /\ sub[b._id].key = b.api_key_id)

\* A task charged 20 is stored as pending and its message is on the queue;
\* its key has been debited 20.
C33_Witness ==
    \E m \in queue :
        LET t == m.body._id IN
        /\ tasks[t].status = "pending" /\ tasks[t].cost = 20 * Unit
        /\ sub[t].debited = 20 * Unit
        /\ \A s \in TaskIds \ {t} : sub[s].pc = "new"
        /\ balance[sub[t].key] = InitBalance - 20 * Unit

\* C34: for a completed task no refund has been credited, neither by the
\* pipeline nor by an admin: the key stays charged the task's cost.
C34_CompletedNotRefunded ==
    \A t \in TaskIds :
        tasks[t].status = "completed" => refunds[t].auto + refunds[t].manual = 0

\* C35: for every request that has ended after a successful debit, either
\* its task record exists with that charge and is queued, held by a handler
\* or already in execution, or the charge has been credited back.
C35_DebitMatched ==
    \A s \in TaskIds :
        (sub[s].pc \in {"done", "error"} /\ sub[s].debited > 0) =>
            \/ /\ tasks[s].status # "none" /\ tasks[s].cost = sub[s].debited
               /\ \/ tasks[s].status # "pending"
                  \/ \E b \in {m.body : m \in queue} \cup {h.body : h \in handlers} :
                         b._id = s
            \/ refunds[s].auto + refunds[s].manual >= sub[s].debited

\* C36: when a delivery is settled (acknowledged, or rejected to the
\* dead-letter queue) its task's record is completed or failed, and for a
\* failed record with a key and a positive charge the handler has been
\* through the credit.
C36_SettledIsTerminal ==
    [][\A h \in handlers \ handlers' :
          (h.pc \in {"ack", "reject"} /\ h.live /\ faults' = faults) =>
              LET doc == tasks[h.body._id] IN
              /\ doc.status \in {"completed", "failed"}
              /\ (doc.status = "failed" /\ doc.api_key_id # 0 /\ doc.cost > 0)
                 => h.out \in {"credited", "credit_error"}]_vars

\* C37: a task that an admin retry has put back to pending (a pending record
\* that a worker had claimed before) is eventually executed again to
\* completed or failed.
C37_RetriedIsExecuted ==
    \A t \in TaskIds :
        (tasks[t].status = "pending" /\ tasks[t].processed_by # Null)
        ~> (tasks[t].status \in {"completed", "failed"})

====
